---- MODULE Spec2Model ----
(***************************************************************************)
(* calx-run: the DAG scheduler of src/calx/scripts/calx_run.py.            *)
(*                                                                         *)
(* run_pipeline keeps two insertion-ordered dicts, queued and running,     *)
(* and a list to_pop.  Python dicts iterate in insertion order, so both    *)
(* dicts are modelled as sequences.  The runners (calx.scripts.containers) *)
(* execute concurrently with the control loop; the loop only observes them *)
(* through is_finished().                                                  *)
(*                                                                         *)
(* A step's configuration (conf["steps"][step]) is read where run_step     *)
(* reads it; stepconfs is the set of configurations the file may hold.     *)
(* spawn, admitOrder and processed record the runner object kept for each  *)
(* name, the order of the run_step calls and the completions handled.      *)
(*                                                                         *)
(* Spec      run_pipeline called on an arbitrary conf["dag"]               *)
(* LiveSpec  run_pipeline with the scheduler running and every runner      *)
(*           finishing                                                     *)
(* MainSpec  main(): scratch directory, validation, build, run, interrupt  *)
(***************************************************************************)
EXTENDS Naturals, Sequences, FiniteSets

VARIABLES conf, stepconfs, args, pc, queued, running, to_pop, idx,
          runner, dispatched, store, writes, artifact, tmpdir, outcome,
          spawn, admitOrder, processed

vars == <<conf, stepconfs, args, pc, queued, running, to_pop, idx,
          runner, dispatched, store, writes, artifact, tmpdir, outcome,
          spawn, admitOrder, processed>>

\* What the scheduler's bookkeeping leaves alone: the runner object held for
\* each name, the order of the run_step calls, the completions handled.
book == <<spawn, admitOrder, processed>>

\* Names a pipeline may give its steps, in the order conf["dag"] lists them.
Steps == {"A", "B", "C"}
DagOrder == <<"A", "B", "C">>

\* Most dependencies one entry of conf["dag"] declares.
MaxDeps == 2

Range(s) == {s[k] : k \in DOMAIN s}

DepSets == {D \in SUBSET Steps : Cardinality(D) <= MaxDeps}

\* conf["dag"]: a list of entries {name, step, dependencies}; the entry's
\* step is the entry's name here.
MkDag(S, f) ==
    LET names == SelectSeq(DagOrder, LAMBDA n : n \in S)
    IN  [k \in 1..Len(names) |->
            [name |-> names[k], dependencies |-> f[names[k]]]]

Confs == {MkDag(S, f) : S \in SUBSET Steps, f \in [Steps -> DepSets]}

DagNames(c) == {c[k].name : k \in DOMAIN c}
DeclaredDeps(c, n) ==
    UNION {c[k].dependencies : k \in {j \in DOMAIN c : c[j].name = n}}

\* ---------------------------------------------------------------- helpers

\* lines 74-78: queued[c["name"]] = {"step", "dependencies": set(...)}
PrepareQueue(c) ==
    [k \in DOMAIN c |->
        [name |-> c[k].name, dependencies |-> c[k].dependencies]]

QueuedNames(q) == {q[k].name : k \in DOMAIN q}
Remaining(q, n) ==
    UNION {q[k].dependencies : k \in {j \in DOMAIN q : q[j].name = n}}

\* Eligible without the test of line 84: every queued entry is ready.
EligibleAny(q) == [k \in DOMAIN q |-> q[k].name]

\* Eligible stopping at the first ready entry: one admission per pass.
EligibleFirst(q) ==
    LET ready == SelectSeq(q, LAMBDA c : c.dependencies = {})
    IN  IF ready = <<>> THEN <<>> ELSE <<ready[1].name>>

\* lines 83-86: the names of the queued entries with no dependency left, in
\* the dict's order.
Eligible(q) ==
    LET ready == SelectSeq(q, LAMBDA c : c.dependencies = {})
    IN  [k \in DOMAIN ready |-> ready[k].name]

\* Dequeue without the del of line 89.
DequeueNone(q, names) == q

\* lines 88-89: del queued[qname] for every name of to_pop.
Dequeue(q, names) == SelectSeq(q, LAMBDA c : c.name \notin Range(names))

\* Runner.is_finished()
IsFinished(r) == r \in {"succeeded", "failed"}

\* A sweep that looks at the first Active Run only.
SweepFirst(run, rs) ==
    IF run # <<>> /\ IsFinished(rs[run[1]]) THEN <<run[1]>> ELSE <<>>

\* A sweep that walks running backwards.
SweepReversed(run, rs) ==
    LET fin == SelectSeq(run, LAMBDA n : IsFinished(rs[n]))
    IN  [k \in DOMAIN fin |-> fin[Len(fin) + 1 - k]]

\* lines 94-96: the names of running whose runner reports finished, in the
\* dict's order.
Sweep(run, rs) == SelectSeq(run, LAMBDA n : IsFinished(rs[n]))

\* Completion handling that forgets the del of line 110.
DelRunningNone(run, pname) == run

\* line 110: del running[pname]
DelRunning(run, pname) == SelectSeq(run, LAMBDA n : n # pname)

\* Release without the discard of line 113.
ReleaseNone(q, pname) == q

\* Release that clears the whole set of a step that waited for pname.
ReleaseAll(q, pname) ==
    [k \in DOMAIN q |->
        [name |-> q[k].name,
         dependencies |-> IF pname \in q[k].dependencies
                            THEN {} ELSE q[k].dependencies]]

\* lines 112-113: queued[qname]["dependencies"].discard(pname) for all qname
Release(q, pname) ==
    [k \in DOMAIN q |->
        [name |-> q[k].name, dependencies |-> q[k].dependencies \ {pname}]]

\* stepconfs: the configurations conf["steps"] holds; run_step reads the one
\* of the step it is called for.
\* conf["steps"][step]: the configured type, as written in the pipeline file,
\* and whether an output file is configured.  args.container: the backends.
StepTypes == {"docker", "Docker", "python"}
Containers == {"local", "docker"}
StepConfs == [type : StepTypes, output : BOOLEAN]

\* line 58: str.lower() on the type strings above
Lower(t) == CASE t = "Docker" -> "docker" [] OTHER -> t

\* ContainerType comparing the type as written, without lower().
ContainerTypeExact(step_type, container) ==
    IF step_type # "docker" THEN container ELSE "local"

\* lines 58-59: the backend run_step asks spawn_container for
ContainerType(step_type, container) ==
    IF Lower(step_type) # "docker" THEN container ELSE "local"

\* No runner object is held for a name.
NoSpawn == [stype |-> "none", container |-> "none", output |-> FALSE]

\* The test of line 107 never taken: the temporary file is left behind.
HoldsNothing(sp) == FALSE

\* line 107: isinstance(running[pname], LocalContainer) and its _output
HoldsLocalArtifact(sp) == sp.container = "local" /\ sp.output

\* lines 56-65: run_step, called for the names of ready in order; cfg[n] is
\* the step configuration it reads for n, one of those conf["steps"] holds.  The runner spawned for n keeps
\* the backend and the output it was given; a LocalContainer with an output
\* holds a temporary file.
RunStep(ready, cfg) ==
    /\ runner' = [n \in Steps |->
                     IF n \in Range(ready) THEN "executing" ELSE runner[n]]
    /\ dispatched' = [n \in Steps |->
                         IF n \in Range(ready) THEN dispatched[n] + 1
                                               ELSE dispatched[n]]
    /\ spawn' = [n \in Steps |->
                    IF n \in Range(ready)
                      THEN [stype |-> cfg[n].type,
                            container |-> ContainerType(cfg[n].type, args.container),
                            output |-> cfg[n].output]
                      ELSE spawn[n]]
    /\ artifact' = artifact \cup {n \in Range(ready) :
                                    /\ spawn'[n].container = "local"
                                    /\ spawn'[n].output}
    /\ admitOrder' = admitOrder \o ready

\* ---------------------------------------------------------------- run_pipeline

\* line 80: while len(queued) > 0
LoopTest ==
    /\ pc = "loop"
    /\ pc' = IF Len(queued) > 0 THEN "admit" ELSE "returned"
    /\ UNCHANGED <<conf, stepconfs, args, queued, running, to_pop, idx, runner,
                   dispatched, store, writes, artifact, tmpdir, outcome>>
    /\ UNCHANGED book

\* lines 82-86: run_step for every eligible job, which enters running and
\* is noted in to_pop; queued is untouched while it is iterated.
Admit ==
    /\ pc = "admit"
    /\ LET ready == Eligible(queued)
       IN  /\ \E cfg \in [Range(ready) -> stepconfs] : RunStep(ready, cfg)
           /\ running' = running \o ready
           /\ to_pop' = ready
    /\ pc' = "dequeue"
    /\ UNCHANGED <<conf, stepconfs, args, queued, idx, store, writes, tmpdir,
                   outcome, processed>>

\* lines 88-92: the admitted jobs leave queued, to_pop is cleared.
DequeueAdmitted ==
    /\ pc = "dequeue"
    /\ queued' = Dequeue(queued, to_pop)
    /\ to_pop' = <<>>
    /\ pc' = "poll"
    /\ UNCHANGED <<conf, stepconfs, args, running, idx, runner, dispatched,
                   store, writes, artifact, tmpdir, outcome>>
    /\ UNCHANGED book

\* lines 94-99: one sweep over running.
Poll ==
    /\ pc = "poll"
    /\ to_pop' = to_pop \o Sweep(running, runner)
    /\ IF to_pop' # <<>>
         THEN pc' = "write" /\ idx' = 1
         ELSE pc' = "sleep" /\ idx' = idx
    /\ UNCHANGED <<conf, stepconfs, args, queued, running, runner, dispatched, store,
                   writes, artifact, tmpdir, outcome>>
    /\ UNCHANGED book

\* line 101: time.sleep(0.5)
Sleep ==
    /\ pc = "sleep"
    /\ pc' = "poll"
    /\ UNCHANGED <<conf, stepconfs, args, queued, running, to_pop, idx, runner,
                   dispatched, store, writes, artifact, tmpdir, outcome>>
    /\ UNCHANGED book

\* lines 104-105: write running[pname].output() to CALX_TMPDIR/pname
WriteOutput ==
    /\ pc = "write"
    /\ store' = store \cup {to_pop[idx]}
    /\ writes' = [writes EXCEPT ![to_pop[idx]] = @ + 1]
    /\ pc' = "cleanup"
    /\ UNCHANGED <<conf, stepconfs, args, queued, running, to_pop, idx, runner,
                   dispatched, artifact, tmpdir, outcome>>
    /\ UNCHANGED book

\* lines 107-108: os.remove of a LocalContainer's temporary output
RemoveArtifact ==
    /\ pc = "cleanup"
    /\ artifact' = IF HoldsLocalArtifact(spawn[to_pop[idx]])
                     THEN artifact \ {to_pop[idx]}
                     ELSE artifact
    /\ pc' = "remove"
    /\ UNCHANGED <<conf, stepconfs, args, queued, running, to_pop, idx, runner,
                   dispatched, store, writes, tmpdir, outcome>>
    /\ UNCHANGED book

\* lines 110-113, and the step of the for loop of line 103
Complete ==
    /\ pc = "remove"
    /\ running' = DelRunning(running, to_pop[idx])
    /\ spawn' = [spawn EXCEPT ![to_pop[idx]] = NoSpawn]
    /\ processed' = processed \cup {to_pop[idx]}
    /\ queued' = Release(queued, to_pop[idx])
    /\ IF idx < Len(to_pop)
         THEN pc' = "write" /\ idx' = idx + 1
         ELSE pc' = "loop" /\ idx' = 0
    /\ UNCHANGED <<conf, stepconfs, args, to_pop, runner, dispatched, store, writes,
                   artifact, tmpdir, outcome, admitOrder>>

\* A dispatched runner ends, with or without success.
RunnerFinish(n) ==
    /\ runner[n] = "executing"
    /\ \E s \in {"succeeded", "failed"} : runner' = [runner EXCEPT ![n] = s]
    /\ UNCHANGED <<conf, stepconfs, args, pc, queued, running, to_pop, idx,
                   dispatched, store, writes, artifact, tmpdir, outcome>>
    /\ UNCHANGED book

Scheduler ==
    \/ LoopTest \/ Admit \/ DequeueAdmitted \/ Poll \/ Sleep
    \/ WriteOutput \/ RemoveArtifact \/ Complete

Runners == \E n \in Steps : RunnerFinish(n)

\* ---------------------------------------------------------------- run_pipeline alone

Init ==
    /\ conf \in Confs
    /\ stepconfs = StepConfs
    /\ args \in [all : {TRUE}, step : {"None"}, container : Containers]
    /\ pc = "loop"
    /\ queued = PrepareQueue(conf)
    /\ running = <<>>
    /\ to_pop = <<>>
    /\ idx = 0
    /\ runner = [n \in Steps |-> "none"]
    /\ dispatched = [n \in Steps |-> 0]
    /\ store = {}
    /\ writes = [n \in Steps |-> 0]
    /\ artifact = {}
    /\ spawn = [n \in Steps |-> NoSpawn]
    /\ admitOrder = <<>>
    /\ processed = {}
    /\ tmpdir = "exists"
    /\ outcome = "none"

Next == Scheduler \/ Runners

Spec == Init /\ [][Next]_vars

\* Two step configurations, one per backend outcome, for the checks that do
\* not turn on the backend.  The liveness check takes every graph, either
\* --container choice, and all steps sharing one of the two; main takes
\* either of the two for each step.
LiveStepConfs == {[type |-> "python", output |-> TRUE],
                  [type |-> "Docker", output |-> FALSE]}

LiveInit ==
    /\ conf \in Confs
    /\ stepconfs \in {{c} : c \in LiveStepConfs}
    /\ args \in [all : {TRUE}, step : {"None"}, container : Containers]
    /\ pc = "loop"
    /\ queued = PrepareQueue(conf)
    /\ running = <<>>
    /\ to_pop = <<>>
    /\ idx = 0
    /\ runner = [n \in Steps |-> "none"]
    /\ dispatched = [n \in Steps |-> 0]
    /\ store = {}
    /\ writes = [n \in Steps |-> 0]
    /\ artifact = {}
    /\ spawn = [n \in Steps |-> NoSpawn]
    /\ admitOrder = <<>>
    /\ processed = {}
    /\ tmpdir = "exists"
    /\ outcome = "none"

\* The control loop keeps running, and every dispatched runner ends.
LiveSpec ==
    /\ LiveInit /\ [][Next]_vars
    /\ WF_vars(Scheduler)
    /\ \A n \in Steps : WF_vars(RunnerFinish(n))

\* ---------------------------------------------------------------- main

\* calx.scripts.config.check.check_pipeline_configs, as the specification
\* describes it: every declared dependency names a step of the DAG and the
\* dependency graph has no cycle.
Edges(c) == {e \in DagNames(c) \X Steps : e[2] \in DeclaredDeps(c, e[1])}

RECURSIVE Closure(_)
Closure(R) ==
    LET R2 == R \cup {e \in Steps \X Steps :
                         \E b \in Steps : <<e[1], b>> \in R /\ <<b, e[2]>> \in R}
    IN  IF R2 = R THEN R ELSE Closure(R2)

Dangling(c) == \E n \in DagNames(c) : ~(DeclaredDeps(c, n) \subseteq DagNames(c))
Cyclic(c) ==
    LET reach == Closure(Edges(c))
    IN  \E n \in Steps : <<n, n>> \in reach

CheckPipelineConfigs(c) == ~Dangling(c) /\ ~Cyclic(c)

\* The program counters inside "with TemporaryDirectory(...)", lines 138-142.
InWith == {"check", "build", "run", "wait", "loop", "admit", "dequeue", "poll",
           "sleep", "write", "cleanup", "remove", "returned"}

\* A with block that leaves the directory behind.
TmpDirLeak == tmpdir' = tmpdir

\* line 137, TemporaryDirectory.__exit__: the directory is removed.
TmpDirExit == tmpdir' = "removed"

\* An exception leaves the with block and ends main.
Raise(kind) ==
    /\ pc' = "exited"
    /\ outcome' = kind
    /\ TmpDirExit

\* lines 137-138: the scratch directory is created, CALX_TMPDIR set
Enter ==
    /\ pc = "main"
    /\ tmpdir' = "exists"
    /\ pc' = "check"
    /\ UNCHANGED <<conf, stepconfs, args, queued, running, to_pop, idx, runner,
                   dispatched, store, writes, artifact, outcome>>
    /\ UNCHANGED book

\* main without line 140's verdict: build follows whatever the graph.
CheckIgnored ==
    /\ pc = "check"
    /\ pc' = "build"
    /\ UNCHANGED <<conf, stepconfs, args, queued, running, to_pop, idx, runner,
                   dispatched, store, writes, artifact, tmpdir, outcome>>
    /\ UNCHANGED book

\* line 140: check_pipeline_configs(conf)
Check ==
    /\ pc = "check"
    /\ IF CheckPipelineConfigs(conf)
         THEN pc' = "build" /\ UNCHANGED <<tmpdir, outcome>>
         ELSE Raise("error")
    /\ UNCHANGED <<conf, stepconfs, args, queued, running, to_pop, idx, runner,
                   dispatched, store, writes, artifact>>
    /\ UNCHANGED book

\* line 141: build(args, conf), which may raise
Build ==
    /\ pc = "build"
    /\ \/ pc' = "run" /\ UNCHANGED <<tmpdir, outcome>>
       \/ Raise("error")
    /\ UNCHANGED <<conf, stepconfs, args, queued, running, to_pop, idx, runner,
                   dispatched, store, writes, artifact>>
    /\ UNCHANGED book

\* lines 118-123 and 69-78: run() enters run_pipeline, or runs one step
Run ==
    /\ pc = "run"
    /\ IF args.all
         THEN /\ queued' = PrepareQueue(conf)
              /\ running' = <<>>
              /\ to_pop' = <<>>
              /\ pc' = "loop"
              /\ UNCHANGED <<runner, dispatched, artifact, spawn, admitOrder>>
         ELSE IF args.step # "None"
           THEN /\ \E cfg \in [{args.step} -> stepconfs] :
                      RunStep(<<args.step>>, cfg)
                /\ pc' = "wait"
                /\ UNCHANGED <<queued, running, to_pop>>
           ELSE /\ pc' = "returned"
                /\ UNCHANGED <<queued, running, to_pop, runner, dispatched,
                               artifact, spawn, admitOrder>>
    /\ UNCHANGED <<conf, stepconfs, args, idx, store, writes, tmpdir, outcome, processed>>

\* line 124: container.wait()
WaitStep ==
    /\ pc = "wait"
    /\ IsFinished(runner[args.step])
    /\ pc' = "returned"
    /\ UNCHANGED <<conf, stepconfs, args, queued, running, to_pop, idx, runner,
                   dispatched, store, writes, artifact, tmpdir, outcome>>
    /\ UNCHANGED book

\* line 142 returns: the with block ends normally
Leave ==
    /\ pc = "returned"
    /\ pc' = "exited"
    /\ outcome' = "ok"
    /\ TmpDirExit
    /\ UNCHANGED <<conf, stepconfs, args, queued, running, to_pop, idx, runner,
                   dispatched, store, writes, artifact>>
    /\ UNCHANGED book

\* A user interrupt or a timeout's signal: KeyboardInterrupt is raised at
\* whatever statement of the with block main is executing.
Interrupt ==
    /\ pc \in InWith
    /\ Raise("cancelled")
    /\ UNCHANGED <<conf, stepconfs, args, queued, running, to_pop, idx, runner,
                   dispatched, store, writes, artifact>>
    /\ UNCHANGED book

MainInit ==
    /\ conf \in Confs
    /\ stepconfs = LiveStepConfs
    /\ args \in [all : BOOLEAN, step : {"None", "A"}, container : Containers]
    /\ pc = "main"
    /\ queued = <<>>
    /\ running = <<>>
    /\ to_pop = <<>>
    /\ idx = 0
    /\ runner = [n \in Steps |-> "none"]
    /\ dispatched = [n \in Steps |-> 0]
    /\ store = {}
    /\ writes = [n \in Steps |-> 0]
    /\ artifact = {}
    /\ spawn = [n \in Steps |-> NoSpawn]
    /\ admitOrder = <<>>
    /\ processed = {}
    /\ tmpdir = "none"
    /\ outcome = "none"

MainNext ==
    \/ Enter \/ Check \/ Build \/ Run \/ WaitStep \/ Leave \/ Interrupt
    \/ Scheduler \/ Runners

MainSpec == MainInit /\ [][MainNext]_vars

\* ---------------------------------------------------------------- properties

\* The pipeline of the specification's example: A and B free, C after both.
Example6 ==
    MkDag(Steps, [n \in Steps |-> IF n = "C" THEN {"A", "B"} ELSE {}])

\* No queued step can be admitted and no run is outstanding.
Deadlocked ==
    /\ queued # <<>>
    /\ Eligible(queued) = <<>>
    /\ running = <<>>

\* C1: on an acyclic graph whose dependencies all name steps of the DAG, with
\* every dispatched runner finishing, run_pipeline returns and has then
\* dispatched every step of the DAG exactly once (and nothing else).
C1_TerminatesAllDispatchedOnce ==
    (~Dangling(conf) /\ ~Cyclic(conf))
        ~> (/\ pc = "returned"
            /\ \A n \in Steps :
                  dispatched[n] = IF n \in DagNames(conf) THEN 1 ELSE 0)

C1_Witness ==
    /\ pc = "returned"
    /\ Len(conf) = 3
    /\ \A n \in Steps : dispatched[n] = 1
    /\ \E n \in Steps : Cardinality(DeclaredDeps(conf, n)) = 2
    /\ ~Dangling(conf) /\ ~Cyclic(conf)

\* C2: in the step that admits B (run_step is called for it), every declared
\* dependency A of B already has its output in the store, is no longer in
\* running, and is no longer in B's remaining-dependency set.
C2_DepsProcessedBeforeAdmission ==
    [][\A b \in Steps :
          dispatched'[b] > dispatched[b] =>
             \A a \in DeclaredDeps(conf, b) :
                /\ a \in store
                /\ writes[a] >= 1
                /\ a \notin Range(running)
                /\ a \notin Remaining(queued, b)]_vars

C2_Witness ==
    \E b \in Steps :
       /\ dispatched[b] = 1
       /\ Cardinality(DeclaredDeps(conf, b)) = 2

\* C3: when run_pipeline returns, running is empty and the store holds an
\* output for every step of the DAG.
C3_CompleteAtReturn ==
    pc = "returned" =>
       /\ running = <<>>
       /\ DagNames(conf) \subseteq store

\* C4: whatever the graph, no step is dispatched more than once, and once
\* its admission pass is over a step in running is no longer queued.
C4_DispatchedAtMostOnce ==
    \A n \in Steps :
       /\ dispatched[n] <= 1
       /\ (pc # "dequeue" /\ n \in Range(running)) => n \notin QueuedNames(queued)

C4_Witness ==
    /\ pc = "poll"
    /\ store # {}
    /\ queued # <<>>
    /\ \E n \in Steps : dispatched[n] = 1
    /\ Dangling(conf) \/ Cyclic(conf)

\* C5: a sweep that finds the scheduler deadlocked (steps queued, none
\* eligible, nothing running) is surfaced: the loop does not go to sleep on it.
C5_DeadlockSurfaced == ~(pc = "sleep" /\ Deadlocked)

\* C6: on the example pipeline A and B are admitted together in the first
\* admission pass, C only once both have finished and been processed, and at
\* return the store holds exactly A, B and C.
C6_ExamplePipeline ==
    conf = Example6 =>
       /\ dispatched["A"] = dispatched["B"]
       /\ dispatched["A"] = 0 =>
             /\ pc \in {"loop", "admit"}
             /\ store = {}
             /\ dispatched["C"] = 0
       /\ dispatched["C"] >= 1 =>
             /\ IsFinished(runner["A"]) /\ IsFinished(runner["B"])
             /\ {"A", "B"} \subseteq store
             /\ Range(running) \subseteq {"C"}
       /\ pc = "returned" => store = {"A", "B", "C"} /\ running = <<>>

C6_Witness ==
    /\ conf = Example6
    /\ pc = "returned"
    /\ store = {"A", "B", "C"}

\* C7: a step that depends, directly or through other steps, on a step whose
\* run failed is never dispatched: no dispatched step has a failed step among
\* its direct or transitive dependencies.
C7_FailedBlocksDependents ==
    LET reach == Closure(Edges(conf))
    IN  \A b \in Steps : \A a \in Steps :
           (runner[a] = "failed" /\ dispatched[b] > 0)
              => <<b, a>> \notin reach

\* C8: once a pipeline run has stopped on a cancellation no dispatched runner
\* is still executing and the scratch directory is gone.
C8_CancelLeavesNothing ==
    (args.all /\ outcome = "cancelled") =>
       /\ \A n \in Steps : runner[n] # "executing"
       /\ tmpdir = "removed"

\* C9: the scratch directory exists at every statement of the with block
\* (validation, build, run) and is removed once main has ended, however it
\* ended.
C9_ScratchLifetime ==
    /\ pc \in InWith => tmpdir = "exists"
    /\ pc = "exited" => tmpdir = "removed"

C9_Witness ==
    /\ pc = "exited"
    /\ outcome = "error"
    /\ tmpdir = "removed"
    /\ ~Dangling(conf) /\ ~Cyclic(conf)

\* C10: with a cyclic or dangling graph main never gets past validation: it
\* never builds, never calls run_step, never enters the polling loop, and
\* ends on an error (or an interrupt).
C10_InvalidNeverScheduled ==
    (Dangling(conf) \/ Cyclic(conf)) =>
       /\ pc \in {"main", "check", "exited"}
       /\ \A n \in Steps : dispatched[n] = 0 /\ runner[n] = "none"
       /\ running = <<>>
       /\ pc = "exited" => outcome \in {"error", "cancelled"}

C10_Witness ==
    /\ Cyclic(conf)
    /\ args.all
    /\ pc = "exited"
    /\ outcome = "error"

\* C11: admission is a batch.  Whenever the loop is polling or sleeping no
\* queued step has an empty remaining-dependency set; an admission pass
\* dispatches every queued step whose set is empty; after completion handling
\* with steps still queued the loop runs an admission pass, and a sweep only
\* ever follows an admission pass or a sleep.
C11_BatchAdmission ==
    /\ [](pc \in {"poll", "sleep"} =>
             \A k \in DOMAIN queued : queued[k].dependencies # {})
    /\ [][/\ (pc = "admit" /\ pc' # "admit") =>
                \A k \in DOMAIN queued :
                   queued[k].dependencies = {} =>
                      /\ dispatched'[queued[k].name] = dispatched[queued[k].name] + 1
                      /\ queued[k].name \in Range(running')
          /\ (pc = "loop" /\ queued # <<>>) => pc' \in {"loop", "admit"}
          /\ (pc' = "poll" /\ pc # "poll") => pc \in {"dequeue", "sleep"}
          /\ (pc' = "dequeue" /\ pc # "dequeue") => pc = "admit"]_vars

C11_Witness ==
    /\ pc = "poll"
    /\ processed # {}
    /\ \E n \in Range(running) : \E m \in Range(running) :
          /\ n # m
          /\ DeclaredDeps(conf, n) # {}
          /\ DeclaredDeps(conf, m) # {}

\* The Active Runs whose runner has finished.
FinishedRuns == {n \in Range(running) : IsFinished(runner[n])}

\* C12: a sweep collects every Active Run that has finished, each once; the
\* loop sleeps exactly after a sweep that found none; completion handling
\* walks the list of the last sweep once, removing from running exactly the
\* runs of that list, each when its turn comes.
C12_SweepAndHandleAll ==
    /\ [](pc \in {"write", "cleanup", "remove"} =>
             /\ idx \in 1..Len(to_pop)
             /\ Cardinality(Range(to_pop)) = Len(to_pop)
             /\ \A k \in DOMAIN to_pop :
                   (k < idx) <=> (to_pop[k] \notin Range(running)))
    /\ [][/\ (pc = "poll" /\ pc' # "poll") =>
                /\ Range(to_pop') = FinishedRuns
                /\ Cardinality(Range(to_pop')) = Len(to_pop')
                /\ (pc' = "sleep") <=> (FinishedRuns = {})
                /\ (pc' = "write") <=> (FinishedRuns # {})
          /\ (pc' = "sleep" /\ pc # "sleep") => pc = "poll"
          /\ \A n \in Range(running) \ Range(running') :
                pc = "remove" /\ n = to_pop[idx]
          /\ (pc = "remove" /\ pc' = "loop") =>
                /\ Range(to_pop) \cap Range(running') = {}
                /\ Range(to_pop) \subseteq processed']_vars

C12_Witness ==
    /\ pc = "write"
    /\ Len(to_pop) = 2
    /\ idx = 2
    /\ Len(running) = 2
    /\ FinishedRuns = {to_pop[2]}

C14_ReleaseNarrowIdempotent ==
    /\ [](\A p \in Steps :
             Release(Release(queued, p), p) = Release(queued, p))
    /\ [][(pc = "remove" /\ pc' # "remove") =>
             LET p == to_pop[idx]
             IN  /\ Len(queued') = Len(queued)
                 /\ \A k \in DOMAIN queued :
                       /\ queued'[k].name = queued[k].name
                       /\ queued'[k].dependencies = queued[k].dependencies \ {p}
                 /\ Release(queued', p) = queued'
                 /\ Range(running') = Range(running) \ {p}]_vars

C14_Witness ==
    /\ pc = "loop"
    /\ processed # {}
    /\ \E k \in DOMAIN queued :
          /\ queued[k].dependencies # {}
          /\ queued[k].dependencies # DeclaredDeps(conf, queued[k].name)
          /\ DeclaredDeps(conf, queued[k].name) \subseteq DagNames(conf) \ {queued[k].name}

\* C15: completion handling of a run p is ordered.  Its output is written
\* while p is in running with its temporary file untouched; the file is
\* removed next, only when p's runner is a local one holding an output, and
\* only with p's output already in the store; p leaves running and the
\* remaining sets last, with the output stored and no temporary file left.
C15_HandlingOrder ==
    /\ [](pc \in {"write", "cleanup", "remove"} =>
             LET p == to_pop[idx]
                 waiting == {k \in DOMAIN queued :
                                p \in DeclaredDeps(conf, queued[k].name)}
             IN  /\ p \in Range(running)
                 /\ \A k \in waiting : p \in queued[k].dependencies
                 /\ pc = "write" =>
                       /\ p \notin store
                       /\ (spawn[p].container = "local" /\ spawn[p].output)
                             => p \in artifact
                 /\ pc = "cleanup" =>
                       /\ p \in store
                       /\ (spawn[p].container = "local" /\ spawn[p].output)
                             => p \in artifact
                 /\ pc = "remove" => p \in store /\ p \notin artifact)
    /\ [][/\ \A n \in artifact \ artifact' :
                /\ pc = "cleanup" /\ n = to_pop[idx]
                /\ n \in store
                /\ spawn[n].container = "local" /\ spawn[n].output
          /\ \A n \in Range(running) \ Range(running') :
                n \in store /\ n \notin artifact /\ pc = "remove"
          /\ (\E k \in DOMAIN queued : k \in DOMAIN queued' /\
                 queued'[k].name = queued[k].name /\
                 queued'[k].dependencies # queued[k].dependencies)
                => (pc = "remove" /\ to_pop[idx] \in store
                       /\ to_pop[idx] \notin artifact)]_vars

C15_Witness ==
    /\ pc = "remove"
    /\ spawn[to_pop[idx]].container = "local"
    /\ spawn[to_pop[idx]].output
    /\ to_pop[idx] \in store
    /\ to_pop[idx] \notin artifact
    /\ \E n \in Range(running) : spawn[n].container = "docker" /\ spawn[n].output

\* The names of admitOrder that are in S, in the order of their run_step calls.
InAdmitOrder(S) == SelectSeq(admitOrder, LAMBDA n : n \in S)

\* C16: completions seen in one sweep are handled in the order in which
\* their steps were admitted: running always lists the Active Runs in the
\* order of their run_step calls, the list a sweep builds is the finished
\* Active Runs in that order, and handling walks that list from its head.
\* The order is thus a function of the admission order and of the set of
\* runs finished at the sweep.
C16_AdmissionOrder ==
    /\ [](/\ running = InAdmitOrder(Range(running))
          /\ pc \in {"write", "cleanup", "remove"} =>
                /\ to_pop = InAdmitOrder(Range(to_pop))
                /\ Range(SubSeq(to_pop, 1, idx - 1)) = Range(to_pop) \ Range(running))
    /\ [][(pc = "poll" /\ pc' # "poll") =>
             to_pop' = InAdmitOrder(FinishedRuns)]_vars

C16_Witness ==
    /\ pc = "cleanup"
    /\ idx = 2
    /\ to_pop = <<"C", "A">>
    /\ store = {"B", "C", "A"}

\* C17: whenever run_step is called for a step, the backend it asks for is
\* "local" if the step's configured type is docker in any letter case, and
\* the caller's --container choice for every other type.
C17_BackendSelection ==
    [][\A n \in Steps :
          dispatched'[n] > dispatched[n] =>
             spawn'[n].container =
                IF spawn'[n].stype \in {"docker", "Docker"}
                  THEN "local"
                  ELSE args.container]_vars

C17_Witness ==
    /\ args.container = "docker"
    /\ \E n \in Steps :
          spawn[n].stype = "Docker" /\ spawn[n].container = "local"
    /\ \E n \in Steps :
          spawn[n].stype = "docker" /\ spawn[n].container = "local"
    /\ \E n \in Steps :
          spawn[n].stype = "python" /\ spawn[n].container = "docker"

\* Where a step name is: 0 queued and not yet dispatched, 1 in running,
\* 2 completion handled.
Place(q, run, done, n) ==
    IF n \in done THEN 2 ELSE IF n \in Range(run) THEN 1 ELSE 0

InOnePlace(n) ==
    \/ n \in QueuedNames(queued) /\ n \notin Range(running) /\ n \notin processed
    \/ n \notin QueuedNames(queued) /\ n \in Range(running) /\ n \notin processed
    \/ n \notin QueuedNames(queued) /\ n \notin Range(running) /\ n \in processed

\* A name moves forward only, one place at a time.
MovesForward ==
    \A n \in Steps :
       /\ Place(queued', running', processed', n) >= Place(queued, running, processed, n)
       /\ Place(queued', running', processed', n) <= Place(queued, running, processed, n) + 1
       /\ n \notin QueuedNames(queued) => n \notin QueuedNames(queued')

\* C18 as claimed: at every point of run_pipeline every DAG step name is in
\* exactly one of queued, running and processed (so queued and running are
\* disjoint), and names only move queued -> running -> processed.
C18_OnePlaceEverywhere ==
    /\ [](\A n \in DagNames(conf) : InOnePlace(n))
    /\ [][MovesForward]_vars

\* C18 as amended: the same at every point outside an admission pass; between
\* the run_step calls of a pass and its del queued[qname] loop the names just
\* dispatched, those of to_pop, are in both queued and running and every other
\* name is in exactly one place.
C18_OnePlaceOutsideAdmission ==
    /\ [](\A n \in DagNames(conf) :
             IF pc = "dequeue" /\ n \in Range(to_pop)
               THEN /\ n \in QueuedNames(queued)
                    /\ n \in Range(running)
                    /\ n \notin processed
               ELSE InOnePlace(n))
    /\ [](/\ Cardinality(Range(running)) = Len(running)
          /\ QueuedNames(queued) \cup Range(running) \cup processed = DagNames(conf))
    /\ [][MovesForward]_vars

C18_Witness ==
    /\ pc = "poll"
    /\ \E a \in QueuedNames(queued) : \E b \in Range(running) : \E c \in processed :
          a # b /\ b # c /\ a # c

\* C19: for every queued step the remaining-dependency set is the declared
\* set minus the names whose completion has been handled; it only shrinks;
\* and a step that declares its own name or a name that is no step of the
\* DAG keeps that name in its set, stays queued and is never dispatched.
C19_RemainingIsDeclaredMinusProcessed ==
    /\ [](\A k \in DOMAIN queued :
             queued[k].dependencies =
                DeclaredDeps(conf, queued[k].name) \ processed)
    /\ [](\A n \in DagNames(conf) :
             LET stuck == {d \in DeclaredDeps(conf, n) :
                              d = n \/ d \notin DagNames(conf)}
             IN  stuck # {} =>
                    /\ dispatched[n] = 0
                    /\ n \in QueuedNames(queued)
                    /\ stuck \subseteq Remaining(queued, n))
    /\ [][\A n \in QueuedNames(queued) \cap QueuedNames(queued') :
             Remaining(queued', n) \subseteq Remaining(queued, n)]_vars

C19_Witness ==
    /\ pc = "sleep"
    /\ running = <<>>
    /\ \E n \in QueuedNames(queued) :
          /\ ~(Remaining(queued, n) \subseteq DagNames(conf) \ {n})
          /\ Remaining(queued, n) # DeclaredDeps(conf, n)

====
